---- MODULE Spec2Model ----
\* A model of wessberg/FileLoader (src/src/file-loader.ts): the FileLoader class over
\* node's fs primitives. Paths, extensions and file contents are sequences, so that
\* endsWith, startsWith and string concatenation are computed as the code computes them.
\* Operations of the two earlier revisions of the class (src/unnamed/part_000, the
\* oldest, and src/unnamed/part_001, the middle one) carry the prefixes P0_ and P1_
\* where the current revision has an operation of the same name.
EXTENDS Integers, Sequences, FiniteSets, TLC

VARIABLES
    fs,        \* the file system: path -> node (never written by FileLoader)
    op,        \* the FileLoader method being called, "idle" between calls
    arg,       \* the arguments of the call
    pc,        \* "idle", "await" (suspended on I/O), "done" (returned / settled)
    pending,   \* the fs requests issued and not yet completed
    cursor,    \* the loop index of the sequential operations
    results,   \* Promise.all's result slots (loadAll)
    frames,    \* the invocations of getAllInDirectory in flight: directory -> frame
    match,     \* the local "match" of loadWithFirstMatchedExtension
    outcome    \* what the caller received

vars == <<fs, op, arg, pc, pending, cursor, results, frames, match, outcome>>

----------------------------------------------------------------------------
\* Bounds of the model

MaxExts == 2      \* longest extension list handed to the match-finder
MaxExcl == 1      \* longest exclusion list
MaxPaths == 2     \* longest path list handed to loadAny / loadAll
MaxDirExts == 1   \* longest extension list handed to the directory operations
MaxExtLen == 4    \* longest extension string handed to normalizeExtension

----------------------------------------------------------------------------
\* Strings

RECURSIVE SeqsUpTo(_, _)
SeqsUpTo(S, n) ==
    IF n = 0 THEN {<<>>}
    ELSE LET shorter == SeqsUpTo(S, n - 1)
         IN  shorter \cup {Append(s, x) : s \in {t \in shorter : Len(t) = n - 1}, x \in S}

StartsWith(s, pre) == Len(pre) <= Len(s) /\ SubSeq(s, 1, Len(pre)) = pre

EndsWith(s, suf) == Len(suf) <= Len(s) /\ SubSeq(s, Len(s) - Len(suf) + 1, Len(s)) = suf

Dot == <<".">>
Slash == <<"/">>

\* the names used on the modelled disk
pA   == <<"a">>
pAT  == <<"a", ".", "t">>
pAM  == <<"a", ".", "m">>
pATT == <<"a", ".", "t", ".", "t">>
pZ   == <<"z">>
pD   == <<"d">>
nAT  == pAT
nBM  == <<"b", ".", "m">>
nS   == <<"s">>
nCT  == <<"c", ".", "t">>
nU   == <<"u">>
nET  == <<"e", ".", "t">>

eT    == <<"t">>
eDotT == <<".", "t">>
eM    == <<"m">>
eDotM == <<".", "m">>

Join(directory, path) == directory \o Slash \o path

----------------------------------------------------------------------------
\* The file system and node's fs primitives

\* "file": readable regular file; "noperm": regular file without read permission;
\* "dir": directory; "nolist": directory without read permission; "missing": no entry;
\* "linkdir": symbolic link to a directory; "denied": entry of a directory without
\* search permission, which no call can reach
Kinds == {"missing", "file", "noperm", "dir", "nolist", "linkdir", "denied"}

MissingNode == [kind |-> "missing", content |-> <<>>, list |-> <<>>]
FileNode(c) == [kind |-> "file", content |-> c, list |-> <<>>]
DirNode(l)  == [kind |-> "dir", content |-> <<>>, list |-> l]

NodeOfKind(k, c) == [kind |-> k, content |-> IF k \in {"file", "noperm"} THEN c ELSE <<>>, list |-> <<>>]

Node(f, path) == IF path \in DOMAIN f THEN f[path] ELSE MissingNode

Kind(f, path) == Node(f, path).kind

IoOk(v)    == [ok |-> TRUE, val |-> v, code |-> "none"]
IoErr(c)   == [ok |-> FALSE, val |-> <<>>, code |-> c]

\* fs.readFile / fs.readFileSync
ReadFile(f, path) ==
    CASE Kind(f, path) = "file"    -> IoOk(Node(f, path).content)
      [] Kind(f, path) = "missing" -> IoErr("ENOENT")
      [] Kind(f, path) \in {"noperm", "denied"} -> IoErr("EACCES")
      [] OTHER                     -> IoErr("EISDIR")

\* fs.existsSync: true for every entry that can be reached, whatever its type or mode
FsExistsSync(f, path) == Kind(f, path) \notin {"missing", "denied"}

\* fs.lstat / fs.lstatSync followed by stats.isDirectory(): the entry itself, a
\* symbolic link is not followed
Lstat(f, path) ==
    CASE Kind(f, path) = "missing" -> IoErr("ENOENT")
      [] Kind(f, path) = "denied"  -> IoErr("EACCES")
      [] OTHER                     -> IoOk(Kind(f, path) \in {"dir", "nolist"})

\* fs.readdir / fs.readdirSync
Readdir(f, path) ==
    CASE Kind(f, path) \in {"dir", "linkdir"} -> IoOk(Node(f, path).list)
      [] Kind(f, path) = "missing" -> IoErr("ENOENT")
      [] Kind(f, path) \in {"nolist", "denied"} -> IoErr("EACCES")
      [] OTHER                     -> IoErr("ENOTDIR")

\* The flat family: "a" is an empty readable file, the entries the match-finder
\* probes take every kind.
FlatOf(kAT, kAM, kATT) ==
    (pA :> FileNode(<<>>)) @@ (pAT :> NodeOfKind(kAT, <<1>>)) @@
    (pAM :> NodeOfKind(kAM, <<2>>)) @@ (pATT :> NodeOfKind(kATT, <<3>>))

FlatFS ==
    {FlatOf(kAT, kAM, kATT) : kAT \in {"missing", "file", "noperm", "dir"},
                              kAM \in {"missing", "file", "noperm", "dir"},
                              kATT \in {"missing", "file"}}

\* The tree family: d/{a.t, b.m, s}, s a file or a directory s/{c.t, u}, u a file or
\* a directory u/{e.t}; the listings come in the orders readdir may give.
Permutations3(x, y, z) ==
    {<<x, y, z>>, <<x, z, y>>, <<y, x, z>>, <<y, z, x>>, <<z, x, y>>, <<z, y, x>>}

TreeOf(rootList, kS, subList, kU) ==
    (pD :> DirNode(rootList)) @@
    (Join(pD, nAT) :> FileNode(<<1>>)) @@
    (Join(pD, nBM) :> FileNode(<<2>>)) @@
    (Join(pD, nS) :> IF kS = "dir" THEN DirNode(subList) ELSE NodeOfKind(kS, <<4>>)) @@
    (IF kS = "dir"
        THEN (Join(Join(pD, nS), nCT) :> (IF \E i \in 1..Len(subList) : subList[i] = nCT
                                            THEN FileNode(<<5>>) ELSE MissingNode)) @@
             (Join(Join(pD, nS), nU) :> (IF \E i \in 1..Len(subList) : subList[i] = nU
                                            THEN (IF kU = "dir" THEN DirNode(<<nET>>) ELSE NodeOfKind(kU, <<6>>))
                                            ELSE MissingNode)) @@
             (Join(Join(Join(pD, nS), nU), nET) :>
                  (IF kU = "dir" /\ \E i \in 1..Len(subList) : subList[i] = nU
                      THEN FileNode(<<7>>) ELSE MissingNode))
        ELSE <<>>)

\* The probe family: a.t and a.m take every kind an entry can have.
StatFS == {FlatOf(kAT, kAM, "missing") : kAT \in Kinds, kAM \in Kinds}

TreeFS ==
    {TreeOf(rootList, kS, <<>>, "file") : rootList \in Permutations3(nAT, nBM, nS),
                                          kS \in {"file", "noperm"}}
    \cup {TreeOf(rootList, "nolist", <<>>, "file") : rootList \in Permutations3(nAT, nBM, nS)}
    \cup {TreeOf(rootList, "dir", subList, "file") :
             rootList \in Permutations3(nAT, nBM, nS),
             subList \in {<<>>, <<nCT>>, <<nCT, nU>>, <<nU, nCT>>}}
    \cup {TreeOf(rootList, "dir", subList, "dir") :
             rootList \in Permutations3(nAT, nBM, nS),
             subList \in {<<nCT, nU>>, <<nU, nCT>>}}

----------------------------------------------------------------------------
\* Values handed back to the caller

Returned(v) == [st |-> "returned", val |-> v, code |-> "none"]
Thrown(c)   == [st |-> "thrown", val |-> <<>>, code |-> c]
NoOutcome   == [st |-> "none", val |-> <<>>, code |-> "none"]

\* null | string and null | [Buffer, string]
Null          == [null |-> TRUE, buf |-> <<>>, path |-> <<>>]
PathOf(p)     == [null |-> FALSE, buf |-> <<>>, path |-> p]
PairOf(b, p)  == [null |-> FALSE, buf |-> b, path |-> p]

\* an optional Iterable<string> argument
Omitted   == [given |-> FALSE, list |-> <<>>]
Given(l)  == [given |-> TRUE, list |-> l]

NoArg == [path |-> <<>>]
NoFrames == <<>>

Init ==
    /\ fs \in FlatFS \cup TreeFS \cup StatFS
    /\ op = "idle"
    /\ arg = NoArg
    /\ pc = "idle"
    /\ pending = {}
    /\ cursor = 0
    /\ results = <<>>
    /\ frames = NoFrames
    /\ match = Null
    /\ outcome = NoOutcome

InitFlat == Init /\ fs \in FlatFS

InitTree == Init /\ fs \in TreeFS

InitStat == Init /\ fs \in StatFS

----------------------------------------------------------------------------
\* exists / existsSync / load / loadSync

ProbePaths == {pA, pAT, pAM, pZ}

ReadReq(path, slot) == [call |-> "readFile", path |-> path, slot |-> slot]

\* the readFile callback of load: reject(err) or resolve(result)
LoadSwallowsError(r) == IF r.ok THEN Returned(r.val) ELSE Returned(<<>>)

LoadCallback(r) == IF r.ok THEN Returned(r.val) ELSE Thrown(r.code)

\* readFileSync returns the buffer or throws
LoadSync(f, path) ==
    IF ReadFile(f, path).ok THEN Returned(ReadFile(f, path).val) ELSE Thrown(ReadFile(f, path).code)

\* exists: (await this.load(path)) != null, with catch -> false
ExistsOfLoad(loaded) == IF loaded.st = "returned" THEN TRUE ELSE FALSE

Exists(f, path) == ExistsOfLoad(LoadCallback(ReadFile(f, path)))

ExistsSync(f, path) == FsExistsSync(f, path)

Call(name, a) ==
    /\ op' = name
    /\ arg' = a
    /\ UNCHANGED fs

SyncReturn(out) ==
    /\ pc' = "done"
    /\ outcome' = out
    /\ UNCHANGED <<pending, cursor, results, frames, match>>

LoadStart ==
    /\ pc = "idle"
    /\ \E path \in ProbePaths :
            /\ Call("load", [path |-> path])
            /\ pc' = "await"
            /\ pending' = {ReadReq(path, 0)}
            /\ UNCHANGED <<cursor, results, frames, match, outcome>>

LoadDone ==
    /\ op = "load" /\ pc = "await"
    /\ \E req \in pending :
        /\ pending' = pending \ {req}
        /\ outcome' = LoadCallback(ReadFile(fs, req.path))
    /\ pc' = "done"
    /\ UNCHANGED <<fs, op, arg, cursor, results, frames, match>>

LoadSyncCall ==
    /\ pc = "idle"
    /\ \E path \in ProbePaths :
            /\ Call("loadSync", [path |-> path])
            /\ SyncReturn(LoadSync(fs, path))

ExistsStart ==
    /\ pc = "idle"
    /\ \E path \in ProbePaths :
            /\ Call("exists", [path |-> path])
            /\ pc' = "await"
            /\ pending' = {ReadReq(path, 0)}
            /\ UNCHANGED <<cursor, results, frames, match, outcome>>

ExistsDone ==
    /\ op = "exists" /\ pc = "await"
    /\ \E req \in pending :
        /\ pending' = pending \ {req}
        /\ outcome' = Returned(ExistsOfLoad(LoadCallback(ReadFile(fs, req.path))))
    /\ pc' = "done"
    /\ UNCHANGED <<fs, op, arg, cursor, results, frames, match>>

ExistsSyncCall ==
    /\ pc = "idle"
    /\ \E path \in ProbePaths :
            /\ Call("existsSync", [path |-> path])
            /\ SyncReturn(Returned(ExistsSync(fs, path)))

\* an instance that remembers the cursor of its last call
ReturnKeepsCursor ==
    /\ pc = "done"
    /\ op' = "idle"
    /\ arg' = NoArg
    /\ pc' = "idle"
    /\ pending' = {}
    /\ results' = <<>>
    /\ frames' = NoFrames
    /\ match' = Null
    /\ outcome' = NoOutcome
    /\ UNCHANGED <<fs, cursor>>

\* the caller takes the result; the instance keeps nothing
Return ==
    /\ pc = "done"
    /\ op' = "idle"
    /\ arg' = NoArg
    /\ pc' = "idle"
    /\ pending' = {}
    /\ cursor' = 0
    /\ results' = <<>>
    /\ frames' = NoFrames
    /\ match' = Null
    /\ outcome' = NoOutcome
    /\ UNCHANGED fs

NextProbe ==
    \/ LoadStart
    \/ LoadDone
    \/ LoadSyncCall
    \/ ExistsStart
    \/ ExistsDone
    \/ ExistsSyncCall
    \/ Return

SpecProbe == InitFlat /\ [][NextProbe]_vars

----------------------------------------------------------------------------
\* getWithFirstMatchedExtension(Sync) / loadWithFirstMatchedExtension(Sync)

FindPaths == {pA, pAT}
ExtPool == {eT, eDotT, eM}
ExclPool == {pAT, eDotM}

ExtLists == SeqsUpTo(ExtPool, MaxExts)
ExclArgs == {Omitted} \cup {Given(l) : l \in SeqsUpTo(ExclPool, MaxExcl)}

\* a "." put in front of every extension
NormalizeExtensionAlwaysPrefixes(extension) == Dot \o extension

\* an extension compared as the caller wrote it
NormalizeExtensionKeepsAsGiven(extension) == extension

NormalizeExtension(extension) ==
    IF StartsWith(extension, Dot) THEN extension ELSE Dot \o extension

MatchedFileIsExcludedNormalized(filePath, excludeExtensions) ==
    IF ~excludeExtensions.given THEN FALSE
    ELSE \E k \in 1..Len(excludeExtensions.list) :
            EndsWith(filePath, NormalizeExtension(excludeExtensions.list[k]))

MatchedFileIsExcluded(filePath, excludeExtensions) ==
    IF ~excludeExtensions.given THEN FALSE
    ELSE \E k \in 1..Len(excludeExtensions.list) : EndsWith(filePath, excludeExtensions.list[k])

\* the for loop of getWithFirstMatchedExtensionSync, from its iteration i on
RECURSIVE GetWithFirstMatchedExtensionSyncFrom(_, _, _, _, _)
GetWithFirstMatchedExtensionSyncFrom(f, path, extensions, excludeExtensions, i) ==
    IF i > Len(extensions) THEN Null
    ELSE LET ext == extensions[i]
             fullPath == path \o NormalizeExtension(ext)
         IN  IF /\ EndsWith(path, NormalizeExtension(ext))
                /\ ~MatchedFileIsExcluded(path, excludeExtensions)
                /\ ExistsSync(f, path)
                THEN PathOf(path)
             ELSE IF ExistsSync(f, fullPath) /\ ~MatchedFileIsExcluded(fullPath, excludeExtensions)
                THEN PathOf(fullPath)
             ELSE GetWithFirstMatchedExtensionSyncFrom(f, path, extensions, excludeExtensions, i + 1)

GetWithFirstMatchedExtensionSync(f, path, extensions, excludeExtensions) ==
    GetWithFirstMatchedExtensionSyncFrom(f, path, extensions, excludeExtensions, 1)

LoadWithFirstMatchedExtensionSync(f, path, extensions, excludeExtensions) ==
    LET m == GetWithFirstMatchedExtensionSync(f, path, extensions, excludeExtensions)
        loaded == LoadSync(f, m.path)
    IN  IF m.null THEN Returned(Null)
        ELSE IF loaded.st = "returned" THEN Returned(PairOf(loaded.val, m.path))
        ELSE loaded

\* One suspension point of the asynchronous operations: where the call stands after
\* running up to its next await or to its return.
Suspended(i, reqs, m) == [pc |-> "await", pending |-> reqs, cursor |-> i, match |-> m, outcome |-> NoOutcome]
Settled(i, m, out)    == [pc |-> "done", pending |-> {}, cursor |-> i, match |-> m, outcome |-> out]

\* what follows the match-finder's return: the caller's value for get..., the load
\* of the match for loadWith...
AfterMatch(name, i, m) ==
    IF name = "getWithFirstMatchedExtension" \/ m.null
        THEN Settled(i, m, Returned(m))
        ELSE Suspended(i, {ReadReq(m.path, 3)}, m)

\* the loop of getWithFirstMatchedExtension from the top of iteration i to its first await:
\* slot 1 is the exists(path) of line 76, slot 2 the exists(fullPath) of line 82
FindIterate(name, path, extensions, excludeExtensions, i) ==
    IF i > Len(extensions) THEN AfterMatch(name, i, Null)
    ELSE IF /\ EndsWith(path, NormalizeExtension(extensions[i]))
            /\ ~MatchedFileIsExcluded(path, excludeExtensions)
        THEN Suspended(i, {ReadReq(path, 1)}, Null)
    ELSE Suspended(i, {ReadReq(path \o NormalizeExtension(extensions[i]), 2)}, Null)

\* the continuation of the loop when the exists() it awaits resolves with doesExist
FindResume(name, path, extensions, excludeExtensions, i, slot, doesExist) ==
    LET fullPath == path \o NormalizeExtension(extensions[i])
    IN  IF slot = 1
            THEN IF doesExist THEN AfterMatch(name, i, PathOf(path))
                 ELSE Suspended(i, {ReadReq(fullPath, 2)}, Null)
        ELSE IF doesExist /\ ~MatchedFileIsExcluded(fullPath, excludeExtensions)
            THEN AfterMatch(name, i, PathOf(fullPath))
        ELSE FindIterate(name, path, extensions, excludeExtensions, i + 1)

Resume(step) ==
    /\ pc' = step.pc
    /\ pending' = step.pending
    /\ cursor' = step.cursor
    /\ match' = step.match
    /\ outcome' = step.outcome

FindArgs == [path : FindPaths, extensions : ExtLists, excludeExtensions : ExclArgs]

GetWithFirstMatchedExtensionStart ==
    /\ pc = "idle"
    /\ \E a \in FindArgs :
            /\ Call("getWithFirstMatchedExtension", a)
            /\ Resume(FindIterate("getWithFirstMatchedExtension", a.path, a.extensions, a.excludeExtensions, 1))
            /\ UNCHANGED <<results, frames>>

LoadWithFirstMatchedExtensionStart ==
    /\ pc = "idle"
    /\ \E a \in FindArgs :
            /\ Call("loadWithFirstMatchedExtension", a)
            /\ Resume(FindIterate("loadWithFirstMatchedExtension", a.path, a.extensions, a.excludeExtensions, 1))
            /\ UNCHANGED <<results, frames>>

\* an exists() awaited by the match-finder resolves
FindProbeDone ==
    /\ op \in {"getWithFirstMatchedExtension", "loadWithFirstMatchedExtension"}
    /\ pc = "await"
    /\ \E req \in pending :
        /\ req.slot \in {1, 2}
        /\ Resume(FindResume(op, arg.path, arg.extensions, arg.excludeExtensions, cursor,
                             req.slot, Exists(fs, req.path)))
    /\ UNCHANGED <<fs, op, arg, results, frames>>

\* the load(match) of loadWithFirstMatchedExtension settles
LoadMatchDone ==
    /\ op = "loadWithFirstMatchedExtension"
    /\ pc = "await"
    /\ \E req \in pending :
        /\ req.slot = 3
        /\ LET loaded == LoadCallback(ReadFile(fs, req.path))
           IN  Resume(Settled(cursor, match,
                              IF loaded.st = "returned"
                                  THEN Returned(PairOf(loaded.val, match.path))
                                  ELSE loaded))
    /\ UNCHANGED <<fs, op, arg, results, frames>>

GetWithFirstMatchedExtensionSyncCall ==
    /\ pc = "idle"
    /\ \E a \in FindArgs :
            /\ Call("getWithFirstMatchedExtensionSync", a)
            /\ SyncReturn(Returned(GetWithFirstMatchedExtensionSync(fs, a.path, a.extensions, a.excludeExtensions)))

LoadWithFirstMatchedExtensionSyncCall ==
    /\ pc = "idle"
    /\ \E a \in FindArgs :
            /\ Call("loadWithFirstMatchedExtensionSync", a)
            /\ SyncReturn(LoadWithFirstMatchedExtensionSync(fs, a.path, a.extensions, a.excludeExtensions))

NextFind ==
    \/ GetWithFirstMatchedExtensionStart
    \/ LoadWithFirstMatchedExtensionStart
    \/ FindProbeDone
    \/ LoadMatchDone
    \/ GetWithFirstMatchedExtensionSyncCall
    \/ LoadWithFirstMatchedExtensionSyncCall
    \/ Return

SpecFind == InitFlat /\ [][NextFind]_vars

----------------------------------------------------------------------------
\* loadAny / loadAnySync / loadAll / loadAllSync

PathPool == {pA, pAT, pAM, pZ}
PathLists == SeqsUpTo(PathPool, MaxPaths)

\* the pair an earlier revision built: the path after the one that was loaded
LoadAnyPairsNextPath(loaded, paths, i) ==
    PairOf(loaded, IF i + 1 <= Len(paths) THEN paths[i + 1] ELSE <<>>)

\* loaded == null ? null : [loaded, path]; a Buffer is never null
LoadAnyPair(loaded, paths, i) == PairOf(loaded, paths[i])

\* the for loop of loadAnySync, from its iteration i on
RECURSIVE LoadAnySyncFrom(_, _, _)
LoadAnySyncFrom(f, paths, i) ==
    IF i > Len(paths) THEN Returned(Null)
    ELSE LET loaded == LoadSync(f, paths[i])
         IN  IF loaded.st = "returned"
                 THEN Returned(LoadAnyPair(loaded.val, paths, i))
                 ELSE LoadAnySyncFrom(f, paths, i + 1)

LoadAnySync(f, paths) == LoadAnySyncFrom(f, paths, 1)

\* a loop that starts the load of the next path along with the one it awaits
LoadAnyIterateReadsAhead(paths, i) ==
    IF i > Len(paths) THEN Settled(i, Null, Returned(Null))
    ELSE Suspended(i, {ReadReq(paths[j], j) : j \in {i, i + 1} \cap 1..Len(paths)}, Null)

\* the for loop of loadAny from the top of iteration i to its await
LoadAnyIterate(paths, i) ==
    IF i > Len(paths) THEN Settled(i, Null, Returned(Null))
    ELSE Suspended(i, {ReadReq(paths[i], i)}, Null)

\* the continuation of loadAny when the load it awaits settles
LoadAnyResume(paths, i, loaded) ==
    IF loaded.st = "returned"
        THEN Settled(i, Null, Returned(LoadAnyPair(loaded.val, paths, i)))
        ELSE LoadAnyIterate(paths, i + 1)

LoadAnyStart ==
    /\ pc = "idle"
    /\ \E paths \in PathLists :
            /\ Call("loadAny", [paths |-> paths])
            /\ Resume(LoadAnyIterate(paths, 1))
            /\ UNCHANGED <<results, frames>>

LoadAnyReadDone ==
    /\ op = "loadAny" /\ pc = "await"
    /\ \E req \in pending :
        Resume(LoadAnyResume(arg.paths, cursor, LoadCallback(ReadFile(fs, req.path))))
    /\ UNCHANGED <<fs, op, arg, results, frames>>

LoadAnySyncCall ==
    /\ pc = "idle"
    /\ \E paths \in PathLists :
            /\ Call("loadAnySync", [paths |-> paths])
            /\ SyncReturn(LoadAnySync(fs, paths))

\* a result slot of Promise.all; "at" is the rank of the slot's completion
EmptySlot == [filled |-> FALSE, buf |-> <<>>, at |-> 0]

Filled(res) == {j \in 1..Len(res) : res[j].filled}

Values(res) == [j \in 1..Len(res) |-> res[j].buf]

PromiseAllStore(res, slot, buf) ==
    [res EXCEPT ![slot] = [filled |-> TRUE, buf |-> buf, at |-> Cardinality(Filled(res)) + 1]]

\* results collected in the order the reads complete
PromiseAllInCompletionOrder(res, st, out, slot, r) ==
    IF r.st = "thrown"
        THEN [results |-> res, pc |-> "done", outcome |-> IF st = "await" THEN r ELSE out]
    ELSE LET first  == CHOOSE j \in 1..Len(res) : ~res[j].filled /\ \A k \in 1..(j - 1) : res[k].filled
             stored == PromiseAllStore(res, first, r.val)
         IN  IF st = "await" /\ Filled(stored) = 1..Len(res)
                 THEN [results |-> stored, pc |-> "done", outcome |-> Returned(Values(stored))]
                 ELSE [results |-> stored, pc |-> st, outcome |-> out]

\* a failed read ends the batch with the contents loaded so far
PromiseAllKeepsLoaded(res, st, out, slot, r) ==
    LET stored == IF r.st = "thrown" THEN res ELSE PromiseAllStore(res, slot, r.val)
        loaded == [k \in 1..Cardinality(Filled(stored)) |->
                      stored[CHOOSE j \in Filled(stored) :
                                 Cardinality({i \in Filled(stored) : i < j}) = k - 1].buf]
    IN  IF st = "await" /\ (r.st = "thrown" \/ Filled(stored) = 1..Len(res))
            THEN [results |-> stored, pc |-> "done", outcome |-> Returned(loaded)]
            ELSE [results |-> stored, pc |-> st, outcome |-> out]

\* Promise.all over the load promises: the first rejection rejects the whole, the last
\* fulfilment resolves it with the values in input order; a settled promise stays as it is
PromiseAllSettle(res, st, out, slot, r) ==
    IF r.st = "thrown"
        THEN [results |-> res, pc |-> "done", outcome |-> IF st = "await" THEN r ELSE out]
    ELSE LET stored == PromiseAllStore(res, slot, r.val)
         IN  IF st = "await" /\ Filled(stored) = 1..Len(res)
                 THEN [results |-> stored, pc |-> "done", outcome |-> Returned(Values(stored))]
                 ELSE [results |-> stored, pc |-> st, outcome |-> out]

LoadAllStart ==
    /\ pc = "idle"
    /\ \E paths \in PathLists :
            /\ Call("loadAll", [paths |-> paths])
            /\ pending' = {ReadReq(paths[j], j) : j \in 1..Len(paths)}
            /\ results' = [j \in 1..Len(paths) |-> EmptySlot]
            /\ pc' = IF paths = <<>> THEN "done" ELSE "await"
            /\ outcome' = IF paths = <<>> THEN Returned(<<>>) ELSE NoOutcome
            /\ UNCHANGED <<cursor, frames, match>>

\* one of the concurrent reads completes, in any order, also after the batch has failed
LoadAllReadDone ==
    /\ op \in {"loadAll", "loadAllInDirectory"}
    /\ \E req \in pending :
        /\ req.call = "readFile"
        /\ pending' = pending \ {req}
        /\ LET step == PromiseAllSettle(results, pc, outcome, req.slot, LoadCallback(ReadFile(fs, req.path)))
           IN  /\ results' = step.results
               /\ pc' = step.pc
               /\ outcome' = step.outcome
    /\ UNCHANGED <<fs, op, arg, cursor, frames, match>>

\* paths.map(path => this.loadSync(path)), from index i on
RECURSIVE LoadAllSyncFrom(_, _, _, _)
LoadAllSyncFrom(f, paths, i, acc) ==
    IF i > Len(paths) THEN Returned(acc)
    ELSE LET loaded == LoadSync(f, paths[i])
         IN  IF loaded.st = "thrown" THEN loaded
             ELSE LoadAllSyncFrom(f, paths, i + 1, Append(acc, loaded.val))

LoadAllSync(f, paths) == LoadAllSyncFrom(f, paths, 1, <<>>)

LoadAllSyncCall ==
    /\ pc = "idle"
    /\ \E paths \in PathLists :
            /\ Call("loadAllSync", [paths |-> paths])
            /\ SyncReturn(LoadAllSync(fs, paths))

NextBatch ==
    \/ LoadAnyStart
    \/ LoadAnyReadDone
    \/ LoadAnySyncCall
    \/ LoadAllStart
    \/ LoadAllReadDone
    \/ LoadAllSyncCall
    \/ Return

SpecBatch == InitFlat /\ [][NextBatch]_vars

----------------------------------------------------------------------------
\* isDirectory(Sync) / getAllInDirectory(Sync)

DirPaths == {pD, Join(pD, nS)}
DirExtPool == {eT, eDotT, eM}
DirExtArgs == {Omitted} \cup {Given(l) : l \in SeqsUpTo(DirExtPool, MaxDirExts)}
DirExclArgs == {Omitted, Given(<<eDotM>>), Given(<<nAT>>)}
DirArgs == [directory : DirPaths, extensions : DirExtArgs, excludedExtensions : DirExclArgs,
            recursive : BOOLEAN]

\* lstat's callback: resolve(false) on an error, resolve(stats.isDirectory()) otherwise
IsDirectory(f, path) == IF Lstat(f, path).ok THEN Lstat(f, path).val ELSE FALSE

\* try { lstatSync(path).isDirectory() } catch { false }
IsDirectorySync(f, path) == IF Lstat(f, path).ok THEN Lstat(f, path).val ELSE FALSE

FileHasValidExtension(file, extensions) ==
    IF ~extensions.given THEN TRUE
    ELSE \E k \in 1..Len(extensions.list) : EndsWith(file, NormalizeExtension(extensions.list[k]))

\* a walk that descends whether or not it was asked to
ChildStepAlwaysRecurses(isDirectory, filePath, extensions, excludedExtensions, recursive) ==
    IF ~isDirectory
        THEN IF FileHasValidExtension(filePath, extensions) /\ ~MatchedFileIsExcluded(filePath, excludedExtensions)
                 THEN "push" ELSE "skip"
    ELSE "recurse"

\* the body of the callback run for each listed child, after isDirectory is known
ChildStep(isDirectory, filePath, extensions, excludedExtensions, recursive) ==
    IF ~isDirectory
        THEN IF FileHasValidExtension(filePath, extensions) /\ ~MatchedFileIsExcluded(filePath, excludedExtensions)
                 THEN "push" ELSE "skip"
    ELSE IF ~recursive THEN "skip"
    ELSE "recurse"

\* getAllInDirectorySync, and its forEach from child k on with newPaths as collected
RECURSIVE GetAllInDirectorySync(_, _, _, _, _), ForEachChildSync(_, _, _, _, _, _, _, _)
GetAllInDirectorySync(f, directory, extensions, excludedExtensions, recursive) ==
    LET paths == Readdir(f, directory)
    IN  IF ~paths.ok THEN Thrown(paths.code)
        ELSE ForEachChildSync(f, directory, paths.val, extensions, excludedExtensions, recursive, 1, <<>>)

\* a forEach that leaves out a subdirectory it could not list
ForEachChildSyncSkipsUnlistable(f, directory, paths, extensions, excludedExtensions, recursive, k, newPaths) ==
    IF k > Len(paths) THEN Returned(newPaths)
    ELSE LET filePath == Join(directory, paths[k])
             step == ChildStep(IsDirectorySync(f, filePath), filePath, extensions, excludedExtensions, recursive)
             sub == GetAllInDirectorySync(f, filePath, extensions, excludedExtensions, recursive)
         IN  ForEachChildSync(f, directory, paths, extensions, excludedExtensions, recursive, k + 1,
                              CASE step = "push" -> Append(newPaths, filePath)
                                [] step = "recurse" /\ sub.st = "returned" -> newPaths \o sub.val
                                [] OTHER -> newPaths)

ForEachChildSync(f, directory, paths, extensions, excludedExtensions, recursive, k, newPaths) ==
    IF k > Len(paths) THEN Returned(newPaths)
    ELSE LET filePath == Join(directory, paths[k])
             step == ChildStep(IsDirectorySync(f, filePath), filePath, extensions, excludedExtensions, recursive)
             sub == GetAllInDirectorySync(f, filePath, extensions, excludedExtensions, recursive)
         IN  CASE step = "push" ->
                    ForEachChildSync(f, directory, paths, extensions, excludedExtensions, recursive,
                                     k + 1, Append(newPaths, filePath))
               [] step = "skip" ->
                    ForEachChildSync(f, directory, paths, extensions, excludedExtensions, recursive,
                                     k + 1, newPaths)
               [] OTHER ->
                    IF sub.st = "thrown" THEN sub
                    ELSE ForEachChildSync(f, directory, paths, extensions, excludedExtensions, recursive,
                                          k + 1, newPaths \o sub.val)

GetAllInDirectorySyncCall ==
    /\ pc = "idle"
    /\ \E a \in DirArgs :
            /\ Call("getAllInDirectorySync", a)
            /\ SyncReturn(GetAllInDirectorySync(fs, a.directory, a.extensions, a.excludedExtensions, a.recursive))

\* One invocation of the asynchronous getAllInDirectory. st: "readdir" (awaiting the
\* listing), "run" (children in progress), "failed" (readdirPromise rejected); parent and
\* slot name the callback of the invocation that awaits this one (none for the caller's);
\* task[k] is the position of the callback of child k: "lstat", "rec" or "done".
NoParent == <<>>

NewFrame(parent, slot) ==
    [st |-> "readdir", parent |-> parent, slot |-> slot, list |-> <<>>, task |-> <<>>, newPaths |-> <<>>]

ReaddirReq(directory) == [call |-> "readdir", path |-> directory, slot |-> 0]
LstatReq(filePath, k) == [call |-> "lstat", path |-> filePath, slot |-> k]

\* an invocation that does not wait for the invocations it started on its subdirectories
FrameCompleteIgnoresRecursion(fr) == fr.st = "run" /\ \A k \in 1..Len(fr.task) : fr.task[k] \in {"done", "rec"}

FrameComplete(fr) == fr.st = "run" /\ \A k \in 1..Len(fr.task) : fr.task[k] = "done"

\* the promise of a complete inner invocation resolves and the callback awaiting it
\* pushes its paths (line 239); repeated while this completes the invocation above
RECURSIVE ResolveFrames(_)
ResolveFrames(frs) ==
    LET ready == {d \in DOMAIN frs : FrameComplete(frs[d]) /\ frs[d].parent # NoParent}
    IN  IF ready = {} THEN frs
        ELSE LET d == CHOOSE x \in ready : TRUE
                 p == frs[d].parent
             IN  ResolveFrames([x \in DOMAIN frs \ {d} |->
                     IF x = p
                         THEN [frs[p] EXCEPT !.newPaths = @ \o frs[d].newPaths,
                                             !.task = [@ EXCEPT ![frs[d].slot] = "done"]]
                         ELSE frs[x]])

\* the microtasks that follow a callback, reqs being the requests left outstanding by
\* it: inner promises resolve, and the promise of the outermost invocation resolves with
\* newPaths once every callback of that invocation is done; loadAllInDirectory, which
\* awaits that promise, then starts a load for every path (line 288)
AfterCallback(frs, reqs) ==
    LET settled == ResolveFrames(frs)
        paths == settled[arg.directory].newPaths
        complete == pc = "await" /\ FrameComplete(settled[arg.directory])
    IN  /\ frames' = settled
        /\ IF complete /\ op = "loadAllInDirectory" /\ paths # <<>>
              THEN /\ pending' = reqs \cup {ReadReq(paths[j], j) : j \in 1..Len(paths)}
                   /\ results' = [j \in 1..Len(paths) |-> EmptySlot]
                   /\ UNCHANGED <<pc, outcome>>
              ELSE /\ pending' = reqs
                   /\ UNCHANGED results
                   /\ IF complete
                         THEN pc' = "done" /\ outcome' = Returned(paths)
                         ELSE UNCHANGED <<pc, outcome>>

GetAllInDirectoryStart ==
    /\ pc = "idle"
    /\ \E a \in DirArgs :
            /\ Call("getAllInDirectory", a)
            /\ pc' = "await"
            /\ frames' = (a.directory :> NewFrame(NoParent, 0))
            /\ pending' = {ReaddirReq(a.directory)}
            /\ UNCHANGED <<cursor, results, match, outcome>>

\* readdir's callback for one invocation: the listing arrives and a callback starts for
\* every child, each issuing its lstat; or the error rejects every promise up to the caller's
ReaddirDone ==
    /\ op \in {"getAllInDirectory", "loadAllInDirectory"}
    /\ \E d \in DOMAIN frames :
        /\ frames[d].st = "readdir"
        /\ ReaddirReq(d) \in pending
        /\ LET paths == Readdir(fs, d)
           IN  IF ~paths.ok
                   THEN /\ frames' = [frames EXCEPT ![d].st = "failed"]
                        /\ pending' = pending \ {ReaddirReq(d)}
                        /\ pc' = "done"
                        /\ outcome' = IF pc = "await" THEN Thrown(paths.code) ELSE outcome
                        /\ UNCHANGED results
                   ELSE AfterCallback([frames EXCEPT ![d] =
                               [@ EXCEPT !.st = "run", !.list = paths.val,
                                         !.task = [k \in 1..Len(paths.val) |-> "lstat"]]],
                            (pending \ {ReaddirReq(d)})
                                \cup {LstatReq(Join(d, paths.val[k]), k) : k \in 1..Len(paths.val)})
    /\ UNCHANGED <<fs, op, arg, cursor, match>>

\* lstat's callback for one child, in whatever order the checks complete
LstatDone ==
    /\ op \in {"getAllInDirectory", "loadAllInDirectory"}
    /\ \E d \in DOMAIN frames :
        /\ frames[d].st = "run"
        /\ \E k \in 1..Len(frames[d].list) :
            LET filePath == Join(d, frames[d].list[k])
                step == ChildStep(IsDirectory(fs, filePath), filePath, arg.extensions,
                                  arg.excludedExtensions, arg.recursive)
            IN  /\ frames[d].task[k] = "lstat"
                /\ LstatReq(filePath, k) \in pending
                /\ CASE step = "push" ->
                          AfterCallback([frames EXCEPT ![d].newPaths = Append(@, filePath),
                                                       ![d].task[k] = "done"],
                                        pending \ {LstatReq(filePath, k)})
                     [] step = "skip" ->
                          AfterCallback([frames EXCEPT ![d].task[k] = "done"],
                                        pending \ {LstatReq(filePath, k)})
                     [] OTHER ->
                          AfterCallback([frames EXCEPT ![d].task[k] = "rec"]
                                            @@ (filePath :> NewFrame(d, k)),
                                        (pending \ {LstatReq(filePath, k)}) \cup {ReaddirReq(filePath)})
    /\ UNCHANGED <<fs, op, arg, cursor, match>>

NextDir ==
    \/ GetAllInDirectorySyncCall
    \/ GetAllInDirectoryStart
    \/ ReaddirDone
    \/ LstatDone
    \/ Return

SpecDir == InitTree /\ [][NextDir]_vars

----------------------------------------------------------------------------
\* The oldest revision (src/unnamed/part_000): getFilesInDirectory(Sync)

eU == <<"u">>

FilesExtPool == {eT, eDotT, eM, eU}
FilesExtArgs == {Omitted} \cup {Given(l) : l \in SeqsUpTo(FilesExtPool, MaxDirExts)}
FilesArgs == [directory : DirPaths, extensions : FilesExtArgs]

\* extensions == null ? files : files.filter(path => extensions.some(ext => path.endsWith(normalize(ext))))
FilterFiles(files, extensions) ==
    IF ~extensions.given THEN files
    ELSE SelectSeq(files, LAMBDA path :
             \E k \in 1..Len(extensions.list) : EndsWith(path, NormalizeExtension(extensions.list[k])))

\* readdirSync's listing, filtered: the names as listed, files and directories alike
GetFilesInDirectorySync(f, directory, extensions) ==
    LET paths == Readdir(f, directory)
    IN  IF ~paths.ok THEN Thrown(paths.code) ELSE Returned(FilterFiles(paths.val, extensions))

GetFilesInDirectorySyncCall ==
    /\ pc = "idle"
    /\ \E a \in FilesArgs :
            /\ Call("getFilesInDirectorySync", a)
            /\ SyncReturn(GetFilesInDirectorySync(fs, a.directory, a.extensions))

GetFilesInDirectoryStart ==
    /\ pc = "idle"
    /\ \E a \in FilesArgs :
            /\ Call("getFilesInDirectory", a)
            /\ pc' = "await"
            /\ pending' = {ReaddirReq(a.directory)}
            /\ UNCHANGED <<cursor, results, frames, match, outcome>>

\* readdir's callback: reject(err) settles the promise on an error (the resolve that
\* follows it no longer counts), resolve(filterFiles(...)) otherwise
GetFilesInDirectoryDone ==
    /\ op = "getFilesInDirectory"
    /\ pc = "await"
    /\ ReaddirReq(arg.directory) \in pending
    /\ LET paths == Readdir(fs, arg.directory)
       IN  outcome' = IF ~paths.ok THEN Thrown(paths.code)
                      ELSE Returned(FilterFiles(paths.val, arg.extensions))
    /\ pc' = "done"
    /\ pending' = {}
    /\ UNCHANGED <<fs, op, arg, cursor, results, frames, match>>

\* the directory listings of both revisions
NextListing ==
    \/ GetFilesInDirectorySyncCall
    \/ GetFilesInDirectoryStart
    \/ GetFilesInDirectoryDone
    \/ GetAllInDirectorySyncCall
    \/ GetAllInDirectoryStart
    \/ ReaddirDone
    \/ LstatDone
    \/ Return

SpecListing == InitTree /\ [][NextListing]_vars

----------------------------------------------------------------------------
\* loadAllInDirectory(Sync)

\* getAllInDirectorySync(...).map(path => this.loadSync(path))
LoadAllInDirectorySync(f, directory, extensions, excludedExtensions, recursive) ==
    LET paths == GetAllInDirectorySync(f, directory, extensions, excludedExtensions, recursive)
    IN  IF paths.st = "thrown" THEN paths ELSE LoadAllSync(f, paths.val)

LoadAllInDirectorySyncCall ==
    /\ pc = "idle"
    /\ \E a \in DirArgs :
            /\ Call("loadAllInDirectorySync", a)
            /\ SyncReturn(LoadAllInDirectorySync(fs, a.directory, a.extensions, a.excludedExtensions, a.recursive))

\* the call awaits getAllInDirectory, whose steps are ReaddirDone and LstatDone; the
\* loads it then starts complete in LoadAllReadDone
LoadAllInDirectoryStart ==
    /\ pc = "idle"
    /\ \E a \in DirArgs :
            /\ Call("loadAllInDirectory", a)
            /\ pc' = "await"
            /\ frames' = (a.directory :> NewFrame(NoParent, 0))
            /\ pending' = {ReaddirReq(a.directory)}
            /\ UNCHANGED <<cursor, results, match, outcome>>

NextLoadDir ==
    \/ LoadAllInDirectorySyncCall
    \/ LoadAllInDirectoryStart
    \/ ReaddirDone
    \/ LstatDone
    \/ LoadAllReadDone
    \/ Return

SpecLoadDir == InitTree /\ [][NextLoadDir]_vars

----------------------------------------------------------------------------
\* isDirectory / isDirectorySync called on their own

StatPaths == {pA, pAT, pAM, pZ}

IsDirectoryStart ==
    /\ pc = "idle"
    /\ \E path \in StatPaths :
            /\ Call("isDirectory", [path |-> path])
            /\ pc' = "await"
            /\ pending' = {LstatReq(path, 0)}
            /\ UNCHANGED <<cursor, results, frames, match, outcome>>

\* lstat's callback resolves the promise, with false on an error
IsDirectoryDone ==
    /\ op = "isDirectory" /\ pc = "await"
    /\ LstatReq(arg.path, 0) \in pending
    /\ pending' = {}
    /\ pc' = "done"
    /\ outcome' = Returned(IsDirectory(fs, arg.path))
    /\ UNCHANGED <<fs, op, arg, cursor, results, frames, match>>

IsDirectorySyncCall ==
    /\ pc = "idle"
    /\ \E path \in StatPaths :
            /\ Call("isDirectorySync", [path |-> path])
            /\ SyncReturn(Returned(IsDirectorySync(fs, path)))

NextStat ==
    \/ IsDirectoryStart
    \/ IsDirectoryDone
    \/ IsDirectorySyncCall
    \/ Return

SpecStat == InitStat /\ [][NextStat]_vars

----------------------------------------------------------------------------
\* normalizeExtension applied to strings of every shape

ExtensionStrings == SeqsUpTo({".", "t", "m"}, MaxExtLen)

NormalizeExtensionCall ==
    /\ pc = "idle"
    /\ \E extension \in ExtensionStrings :
            /\ Call("normalizeExtension", [extension |-> extension])
            /\ SyncReturn(Returned(NormalizeExtension(extension)))

NextNormalize ==
    \/ NormalizeExtensionCall
    \/ Return

SpecNormalize == InitFlat /\ [][NextNormalize]_vars

----------------------------------------------------------------------------
\* The middle revision (src/unnamed/part_001): exists / existsSync

\* fs.stat: symbolic links are followed; only the error, if any, is looked at
Stat(f, path) ==
    CASE Kind(f, path) = "missing" -> IoErr("ENOENT")
      [] Kind(f, path) = "denied"  -> IoErr("EACCES")
      [] OTHER                     -> IoOk(Kind(f, path))

StatReq(path, slot) == [call |-> "stat", path |-> path, slot |-> slot]

\* stat's callback of exists: resolve(err != null)
P1_Exists(f, path) == ~Stat(f, path).ok

P1_ExistsSync(f, path) == FsExistsSync(f, path)

P1_ExistsStart ==
    /\ pc = "idle"
    /\ \E path \in ProbePaths :
            /\ Call("part_001.exists", [path |-> path])
            /\ pc' = "await"
            /\ pending' = {StatReq(path, 0)}
            /\ UNCHANGED <<cursor, results, frames, match, outcome>>

P1_ExistsDone ==
    /\ op = "part_001.exists" /\ pc = "await"
    /\ StatReq(arg.path, 0) \in pending
    /\ pending' = {}
    /\ pc' = "done"
    /\ outcome' = Returned(P1_Exists(fs, arg.path))
    /\ UNCHANGED <<fs, op, arg, cursor, results, frames, match>>

P1_ExistsSyncCall ==
    /\ pc = "idle"
    /\ \E path \in ProbePaths :
            /\ Call("part_001.existsSync", [path |-> path])
            /\ SyncReturn(Returned(P1_ExistsSync(fs, path)))

NextMiddleProbe ==
    \/ P1_ExistsStart
    \/ P1_ExistsDone
    \/ P1_ExistsSyncCall
    \/ Return

SpecMiddleProbe == InitStat /\ [][NextMiddleProbe]_vars

----------------------------------------------------------------------------
\* The oldest revision (src/unnamed/part_000): loadWithFirstMatchedExtension(Sync)

\* the pair [null, null]
NullPair == [null |-> TRUE, buf |-> <<>>, path |-> <<>>]

\* load: reject(err) or resolve(result)
P0_LoadCallback(r) == IF r.ok THEN Returned(r.val) ELSE Thrown(r.code)

\* loadSync: readFileSync returns the buffer or throws
P0_LoadSync(f, path) ==
    IF ReadFile(f, path).ok THEN Returned(ReadFile(f, path).val) ELSE Thrown(ReadFile(f, path).code)

\* extensions.some(ext => path.endsWith(this.normalizeExtension(ext)))
PathHasExtension(path, extensions) ==
    \E k \in 1..Len(extensions) : EndsWith(path, NormalizeExtension(extensions[k]))

\* the function inner of the blocking form, from the cursor on: a load that throws
\* is caught and inner runs again; value stays [null, null] when the cursor runs out
RECURSIVE P0_InnerSync(_, _, _, _)
P0_InnerSync(f, path, extensions, i) ==
    IF i > Len(extensions) THEN Returned(NullPair)
    ELSE LET loadPath == path \o NormalizeExtension(extensions[i])
             result == P0_LoadSync(f, loadPath)
         IN  IF result.st = "returned" THEN Returned(PairOf(result.val, loadPath))
             ELSE P0_InnerSync(f, path, extensions, i + 1)

\* a path that has one of the extensions is loaded as it is, outside any try
P0_LoadWithFirstMatchedExtensionSync(f, path, extensions) ==
    IF PathHasExtension(path, extensions)
        THEN LET buffer == P0_LoadSync(f, path)
             IN  IF buffer.st = "thrown" THEN buffer ELSE Returned(PairOf(buffer.val, path))
        ELSE P0_InnerSync(f, path, extensions, 1)

P0_FindArgs == [path : FindPaths, extensions : ExtLists]

P0_LoadWithFirstMatchedExtensionSyncCall ==
    /\ pc = "idle"
    /\ \E a \in P0_FindArgs :
            /\ Call("part_000.loadWithFirstMatchedExtensionSync", a)
            /\ SyncReturn(P0_LoadWithFirstMatchedExtensionSync(fs, a.path, a.extensions))

\* the asynchronous inner from the cursor on, up to its await; slot 0 is the load of
\* the path as it is, slot i the load of the candidate of extension i
P0_Inner(path, extensions, i) ==
    IF i > Len(extensions) THEN Settled(i, Null, Returned(NullPair))
    ELSE Suspended(i, {ReadReq(path \o NormalizeExtension(extensions[i]), i)}, Null)

P0_LoadWithFirstMatchedExtensionStart ==
    /\ pc = "idle"
    /\ \E a \in P0_FindArgs :
            /\ Call("part_000.loadWithFirstMatchedExtension", a)
            /\ Resume(IF PathHasExtension(a.path, a.extensions)
                          THEN Suspended(0, {ReadReq(a.path, 0)}, Null)
                          ELSE P0_Inner(a.path, a.extensions, 1))
            /\ UNCHANGED <<results, frames>>

\* the awaited load settles: the direct load returns the pair or rejects the call; a
\* candidate's load resolves the call or, caught, lets inner go on
P0_LoadWithFirstMatchedExtensionReadDone ==
    /\ op = "part_000.loadWithFirstMatchedExtension" /\ pc = "await"
    /\ \E req \in pending :
        LET result == P0_LoadCallback(ReadFile(fs, req.path))
        IN  Resume(IF result.st = "returned"
                       THEN Settled(cursor, Null, Returned(PairOf(result.val, req.path)))
                   ELSE IF req.slot = 0 THEN Settled(cursor, Null, result)
                   ELSE P0_Inner(arg.path, arg.extensions, cursor + 1))
    /\ UNCHANGED <<fs, op, arg, results, frames>>

NextOldestFind ==
    \/ P0_LoadWithFirstMatchedExtensionSyncCall
    \/ P0_LoadWithFirstMatchedExtensionStart
    \/ P0_LoadWithFirstMatchedExtensionReadDone
    \/ Return

SpecOldestFind == InitFlat /\ [][NextOldestFind]_vars

----------------------------------------------------------------------------
\* The middle revision (src/unnamed/part_001): existsWithFirstMatchedExtension(Sync)

\* the tuples [doesExist, fullPath] and [false, null]
ExistsPair(doesExist, fullPath) == [exists |-> doesExist, null |-> FALSE, path |-> fullPath]
NoMatchPair == [exists |-> FALSE, null |-> TRUE, path |-> <<>>]

\* the for loop of the blocking form from extension i on
RECURSIVE P1_ExistsWithFirstMatchedExtensionSyncFrom(_, _, _, _)
P1_ExistsWithFirstMatchedExtensionSyncFrom(f, path, extensions, i) ==
    IF i > Len(extensions) THEN NoMatchPair
    ELSE LET fullPath == path \o NormalizeExtension(extensions[i])
         IN  IF P1_ExistsSync(f, fullPath) THEN ExistsPair(TRUE, fullPath)
             ELSE P1_ExistsWithFirstMatchedExtensionSyncFrom(f, path, extensions, i + 1)

P1_ExistsWithFirstMatchedExtensionSync(f, path, extensions) ==
    P1_ExistsWithFirstMatchedExtensionSyncFrom(f, path, extensions, 1)

P1_FindArgs == [path : FindPaths, extensions : ExtLists]

P1_ExistsWithFirstMatchedExtensionSyncCall ==
    /\ pc = "idle"
    /\ \E a \in P1_FindArgs :
            /\ Call("part_001.existsWithFirstMatchedExtensionSync", a)
            /\ SyncReturn(Returned(P1_ExistsWithFirstMatchedExtensionSync(fs, a.path, a.extensions)))

\* inner, called once: [false, null] for an empty list, else exists(fullPath) of the
\* first extension is awaited (cursor++)
P1_ExistsWithFirstMatchedExtensionStart ==
    /\ pc = "idle"
    /\ \E a \in P1_FindArgs :
            /\ Call("part_001.existsWithFirstMatchedExtension", a)
            /\ Resume(IF Len(a.extensions) = 0
                          THEN Settled(0, Null, Returned(NoMatchPair))
                          ELSE Suspended(1, {StatReq(a.path \o NormalizeExtension(a.extensions[1]), 1)}, Null))
            /\ UNCHANGED <<results, frames>>

\* exists never rejects, so the catch that would call inner again is never entered:
\* the promise resolves with [doesExist, fullPath] whatever doesExist is
P1_ExistsWithFirstMatchedExtensionStatDone ==
    /\ op = "part_001.existsWithFirstMatchedExtension" /\ pc = "await"
    /\ \E req \in pending :
        Resume(Settled(cursor, Null, Returned(ExistsPair(P1_Exists(fs, req.path), req.path))))
    /\ UNCHANGED <<fs, op, arg, results, frames>>

NextMiddleFind ==
    \/ P1_ExistsWithFirstMatchedExtensionSyncCall
    \/ P1_ExistsWithFirstMatchedExtensionStart
    \/ P1_ExistsWithFirstMatchedExtensionStatDone
    \/ Return

SpecMiddleFind == InitStat /\ [][NextMiddleFind]_vars

----------------------------------------------------------------------------
\* The sequential operations: loadAny and getWithFirstMatchedExtension

NextSequential ==
    \/ LoadAnyStart
    \/ LoadAnyReadDone
    \/ GetWithFirstMatchedExtensionStart
    \/ FindProbeDone
    \/ Return

SpecSequential == InitFlat /\ [][NextSequential]_vars

----------------------------------------------------------------------------
\* The middle revision (src/unnamed/part_001): loadAny / loadAnySync

\* what array[cursor] gives one past the end of the array
Undefined == <<"undefined">>

\* array[cursor] after the cursor++ of the load: the element after the loaded one
PathAfter(paths, i) == IF i + 1 <= Len(paths) THEN paths[i + 1] ELSE Undefined

\* load: reject(err) or resolve(result)
P1_LoadCallback(r) == IF r.ok THEN Returned(r.val) ELSE Thrown(r.code)

\* loadSync: readFileSync returns the buffer or throws
P1_LoadSync(f, path) ==
    IF ReadFile(f, path).ok THEN Returned(ReadFile(f, path).val) ELSE Thrown(ReadFile(f, path).code)

\* the function inner of loadAnySync with the cursor at element i: a load that throws
\* is caught and inner runs again; value stays null when the cursor runs out
RECURSIVE P1_LoadAnyInnerSync(_, _, _)
P1_LoadAnyInnerSync(f, paths, i) ==
    IF i > Len(paths) THEN Returned(Null)
    ELSE LET result == P1_LoadSync(f, paths[i])
         IN  IF result.st = "returned" THEN Returned(PairOf(result.val, PathAfter(paths, i)))
             ELSE P1_LoadAnyInnerSync(f, paths, i + 1)

P1_LoadAnySync(f, paths) == P1_LoadAnyInnerSync(f, paths, 1)

P1_LoadAnySyncCall ==
    /\ pc = "idle"
    /\ \E paths \in PathLists :
            /\ Call("part_001.loadAnySync", [paths |-> paths])
            /\ SyncReturn(P1_LoadAnySync(fs, paths))

\* the asynchronous inner with the cursor at element i, up to its await
P1_LoadAnyInner(paths, i) ==
    IF i > Len(paths) THEN Settled(i, Null, Returned(Null))
    ELSE Suspended(i, {ReadReq(paths[i], i)}, Null)

P1_LoadAnyStart ==
    /\ pc = "idle"
    /\ \E paths \in PathLists :
            /\ Call("part_001.loadAny", [paths |-> paths])
            /\ Resume(P1_LoadAnyInner(paths, 1))
            /\ UNCHANGED <<results, frames>>

\* the awaited load settles: resolve([result, array[cursor]]), or the catch calls inner
P1_LoadAnyReadDone ==
    /\ op = "part_001.loadAny" /\ pc = "await"
    /\ \E req \in pending :
        LET result == P1_LoadCallback(ReadFile(fs, req.path))
        IN  Resume(IF result.st = "returned"
                       THEN Settled(cursor, Null, Returned(PairOf(result.val, PathAfter(arg.paths, cursor))))
                       ELSE P1_LoadAnyInner(arg.paths, cursor + 1))
    /\ UNCHANGED <<fs, op, arg, results, frames>>

NextMiddleBatch ==
    \/ P1_LoadAnySyncCall
    \/ P1_LoadAnyStart
    \/ P1_LoadAnyReadDone
    \/ Return

SpecMiddleBatch == InitFlat /\ [][NextMiddleBatch]_vars

----------------------------------------------------------------------------
\* The oldest revision (src/unnamed/part_000): loadAny / loadAnySync

\* the function inner of loadAnySync with the cursor at element i: a load that throws
\* is caught and inner runs again; value stays [null, null] when the cursor runs out
RECURSIVE P0_LoadAnyInnerSync(_, _, _)
P0_LoadAnyInnerSync(f, paths, i) ==
    IF i > Len(paths) THEN Returned(NullPair)
    ELSE LET result == P0_LoadSync(f, paths[i])
         IN  IF result.st = "returned" THEN Returned(PairOf(result.val, PathAfter(paths, i)))
             ELSE P0_LoadAnyInnerSync(f, paths, i + 1)

P0_LoadAnySync(f, paths) == P0_LoadAnyInnerSync(f, paths, 1)

P0_LoadAnySyncCall ==
    /\ pc = "idle"
    /\ \E paths \in PathLists :
            /\ Call("part_000.loadAnySync", [paths |-> paths])
            /\ SyncReturn(P0_LoadAnySync(fs, paths))

\* an inner that gives up after the first load that fails
P0_LoadAnyInnerGivesUp(paths, i) ==
    IF i > 1 \/ i > Len(paths) THEN Settled(i, Null, Returned(NullPair))
    ELSE Suspended(i, {ReadReq(paths[i], i)}, Null)

\* the asynchronous inner with the cursor at element i, up to its await
P0_LoadAnyInner(paths, i) ==
    IF i > Len(paths) THEN Settled(i, Null, Returned(NullPair))
    ELSE Suspended(i, {ReadReq(paths[i], i)}, Null)

P0_LoadAnyStart ==
    /\ pc = "idle"
    /\ \E paths \in PathLists :
            /\ Call("part_000.loadAny", [paths |-> paths])
            /\ Resume(P0_LoadAnyInner(paths, 1))
            /\ UNCHANGED <<results, frames>>

\* the awaited load settles: resolve([result, paths[cursor]]), or the catch calls inner
P0_LoadAnyReadDone ==
    /\ op = "part_000.loadAny" /\ pc = "await"
    /\ \E req \in pending :
        LET result == P0_LoadCallback(ReadFile(fs, req.path))
        IN  Resume(IF result.st = "returned"
                       THEN Settled(cursor, Null, Returned(PairOf(result.val, PathAfter(arg.paths, cursor))))
                       ELSE P0_LoadAnyInner(arg.paths, cursor + 1))
    /\ UNCHANGED <<fs, op, arg, results, frames>>

NextOldestBatch ==
    \/ P0_LoadAnySyncCall
    \/ P0_LoadAnyStart
    \/ P0_LoadAnyReadDone
    \/ Return

\* node's event loop delivers the callback of every readFile it was given
SpecOldestBatch ==
    InitFlat /\ [][NextOldestBatch]_vars /\ WF_vars(P0_LoadAnyReadDone)

----------------------------------------------------------------------------
\* Every operation of the current revision (src/src/file-loader.ts), one call after another

NextCurrent ==
    \/ LoadStart
    \/ LoadDone
    \/ LoadSyncCall
    \/ ExistsStart
    \/ ExistsDone
    \/ ExistsSyncCall
    \/ GetWithFirstMatchedExtensionStart
    \/ LoadWithFirstMatchedExtensionStart
    \/ FindProbeDone
    \/ LoadMatchDone
    \/ GetWithFirstMatchedExtensionSyncCall
    \/ LoadWithFirstMatchedExtensionSyncCall
    \/ LoadAnyStart
    \/ LoadAnyReadDone
    \/ LoadAnySyncCall
    \/ LoadAllStart
    \/ LoadAllReadDone
    \/ LoadAllSyncCall
    \/ GetAllInDirectorySyncCall
    \/ GetAllInDirectoryStart
    \/ ReaddirDone
    \/ LstatDone
    \/ LoadAllInDirectorySyncCall
    \/ LoadAllInDirectoryStart
    \/ IsDirectoryStart
    \/ IsDirectoryDone
    \/ IsDirectorySyncCall
    \/ NormalizeExtensionCall
    \/ Return

\* over the flat disks and the directory trees
InitCurrent == Init /\ fs \in FlatFS \cup TreeFS

SpecCurrent == InitCurrent /\ [][NextCurrent]_vars

----------------------------------------------------------------------------
\* Every operation of the three revisions

Next ==
    \/ LoadStart
    \/ LoadDone
    \/ LoadSyncCall
    \/ ExistsStart
    \/ ExistsDone
    \/ ExistsSyncCall
    \/ GetWithFirstMatchedExtensionStart
    \/ LoadWithFirstMatchedExtensionStart
    \/ FindProbeDone
    \/ LoadMatchDone
    \/ GetWithFirstMatchedExtensionSyncCall
    \/ LoadWithFirstMatchedExtensionSyncCall
    \/ LoadAnyStart
    \/ LoadAnyReadDone
    \/ LoadAnySyncCall
    \/ LoadAllStart
    \/ LoadAllReadDone
    \/ LoadAllSyncCall
    \/ GetAllInDirectorySyncCall
    \/ GetAllInDirectoryStart
    \/ ReaddirDone
    \/ LstatDone
    \/ GetFilesInDirectorySyncCall
    \/ GetFilesInDirectoryStart
    \/ GetFilesInDirectoryDone
    \/ LoadAllInDirectorySyncCall
    \/ LoadAllInDirectoryStart
    \/ IsDirectoryStart
    \/ IsDirectoryDone
    \/ IsDirectorySyncCall
    \/ NormalizeExtensionCall
    \/ P1_ExistsStart
    \/ P1_ExistsDone
    \/ P1_ExistsSyncCall
    \/ P0_LoadWithFirstMatchedExtensionSyncCall
    \/ P0_LoadWithFirstMatchedExtensionStart
    \/ P0_LoadWithFirstMatchedExtensionReadDone
    \/ P1_ExistsWithFirstMatchedExtensionSyncCall
    \/ P1_ExistsWithFirstMatchedExtensionStart
    \/ P1_ExistsWithFirstMatchedExtensionStatDone
    \/ P1_LoadAnySyncCall
    \/ P1_LoadAnyStart
    \/ P1_LoadAnyReadDone
    \/ P0_LoadAnySyncCall
    \/ P0_LoadAnyStart
    \/ P0_LoadAnyReadDone
    \/ Return

Spec == Init /\ [][Next]_vars

----------------------------------------------------------------------------
\* The claims

\* the spec's contract of exists: true iff the path is a readable regular file
Readable(f, path) == Kind(f, path) = "file"

\* C1: exists and existsSync never raise, and return false for every path whose access
\* fails: a missing path, a file without read permission, a directory.
C1_ExistsFalseOnAccessFailure ==
    (pc = "done" /\ op \in {"exists", "existsSync"}) =>
        /\ outcome.st = "returned"
        /\ (~Readable(fs, arg.path) => outcome.val = FALSE)

\* C2: load and loadSync return exactly the content of an existing readable file
\* (possibly empty) and fail, returning no value, for every other path.
C2_LoadContentOrError ==
    (pc = "done" /\ op \in {"load", "loadSync"}) =>
        IF Readable(fs, arg.path)
            THEN outcome = Returned(fs[arg.path].content)
            ELSE outcome.st = "thrown" /\ outcome.code # "none"

C2_Witness ==
    /\ pc = "done" /\ op = "load"
    /\ Kind(fs, arg.path) = "noperm"
    /\ outcome.st = "thrown"

\* the candidate the claim names at index i, and whether index i qualifies
ClaimCandidate(f, path, extensions, i) ==
    IF EndsWith(path, NormalizeExtension(extensions[i])) /\ Readable(f, path)
        THEN path
        ELSE path \o NormalizeExtension(extensions[i])

ClaimQualifies(f, path, extensions, i) ==
    \/ EndsWith(path, NormalizeExtension(extensions[i])) /\ Readable(f, path)
    \/ Readable(f, path \o NormalizeExtension(extensions[i]))

ClaimFirstMatch(f, path, extensions) ==
    LET hits == {i \in 1..Len(extensions) : ClaimQualifies(f, path, extensions, i)}
    IN  IF hits = {} THEN Null
        ELSE PathOf(ClaimCandidate(f, path, extensions, CHOOSE i \in hits : \A j \in hits : i <= j))

NoExclusions == ~arg.excludeExtensions.given \/ arg.excludeExtensions.list = <<>>

\* C3: without exclusions the match-finder, in both forms, returns the candidate of the
\* earliest index at which (a) the path ends with the normalized extension and exists,
\* or (b) path + normalized extension exists, (a) before (b); null iff no index qualifies.
C3_FirstQualifyingCandidate ==
    (/\ pc = "done"
     /\ op \in {"getWithFirstMatchedExtension", "getWithFirstMatchedExtensionSync"}
     /\ NoExclusions) =>
        outcome = Returned(ClaimFirstMatch(fs, arg.path, arg.extensions))

\* C4: a non-null result of the match-finder never ends with a string of
\* excludeExtensions, compared as given, and an excluded candidate does not end the
\* search: whenever some index has a readable candidate that is not excluded, the
\* result is not null.
C4_ExcludedNeverReturned ==
    (/\ pc = "done"
     /\ op \in {"getWithFirstMatchedExtension", "getWithFirstMatchedExtensionSync"}) =>
        /\ outcome.st = "returned"
        /\ (~outcome.val.null =>
                \A k \in 1..Len(arg.excludeExtensions.list) :
                    ~EndsWith(outcome.val.path, arg.excludeExtensions.list[k]))
        /\ ((\E i \in 1..Len(arg.extensions) :
                LET c == arg.path \o NormalizeExtension(arg.extensions[i])
                IN  /\ Readable(fs, c)
                    /\ \A k \in 1..Len(arg.excludeExtensions.list) :
                           ~EndsWith(c, arg.excludeExtensions.list[k]))
                => ~outcome.val.null)

\* the first candidate exists and is excluded, the second is returned
C4_Witness ==
    /\ pc = "done" /\ op = "getWithFirstMatchedExtension"
    /\ arg.path = pA /\ arg.extensions = <<eT, eM>>
    /\ arg.excludeExtensions = Given(<<pAT>>)
    /\ Readable(fs, pAT)
    /\ outcome = Returned(PathOf(pAM))

\* C5: loadWithFirstMatchedExtension(Sync) returns null exactly when the match-finder
\* returns null, and otherwise the pair [content(m), m] of the path m the finder returned.
C5_LoadPairsFinderResult ==
    (pc = "done" /\ op \in {"loadWithFirstMatchedExtension", "loadWithFirstMatchedExtensionSync"}) =>
        LET m == IF op = "loadWithFirstMatchedExtension" THEN match
                 ELSE GetWithFirstMatchedExtensionSync(fs, arg.path, arg.extensions, arg.excludeExtensions)
        IN  IF m.null THEN outcome = Returned(Null)
            ELSE outcome = Returned(PairOf(Node(fs, m.path).content, m.path))

AllLoad(f, paths) == \A i \in 1..Len(paths) : Readable(f, paths[i])

C7_LoadAllKeepsInputOrder ==
    (pc = "done" /\ op \in {"loadAll", "loadAllSync"} /\ AllLoad(fs, arg.paths)) =>
        /\ outcome.st = "returned"
        /\ Len(outcome.val) = Len(arg.paths)
        /\ \A i \in 1..Len(arg.paths) : outcome.val[i] = fs[arg.paths[i]].content

\* the read of the second path completed before the read of the first
C7_Witness ==
    /\ pc = "done" /\ op = "loadAll"
    /\ arg.paths = <<pAT, pA>>
    /\ AllLoad(fs, arg.paths)
    /\ results[2].at < results[1].at
    /\ outcome = Returned(<<<<1>>, <<>>>>)

\* C8: if a path fails to load, loadAll / loadAllSync fail as a whole: the caller never
\* receives a sequence, not even after the remaining reads have completed.
C8_LoadAllFailsAsAWhole ==
    (op \in {"loadAll", "loadAllSync"} /\ ~AllLoad(fs, arg.paths)) =>
        /\ outcome.st # "returned"
        /\ (pc = "done" => outcome.st = "thrown")

\* one content did load, one read failed, every read has completed
C8_Witness ==
    /\ pc = "done" /\ op = "loadAll"
    /\ arg.paths = <<pA, pZ>>
    /\ pending = {}
    /\ results[1].filled
    /\ outcome = Thrown("ENOENT")

RangeOf(seq) == {seq[i] : i \in 1..Len(seq)}

\* path lies below directory: a direct child, or at any depth when deep
Below(path, directory, deep) ==
    /\ StartsWith(path, directory \o Slash)
    /\ Len(path) > Len(directory) + 1
    /\ (deep \/ \A i \in (Len(directory) + 2)..Len(path) : path[i] # "/")

\* the non-directory entries below the directory that pass both filters
MatchingEntries(f, directory, extensions, excludedExtensions, deep) ==
    {path \in DOMAIN f :
        /\ Kind(f, path) \in {"file", "noperm"}
        /\ Below(path, directory, deep)
        /\ FileHasValidExtension(path, extensions)
        /\ ~MatchedFileIsExcluded(path, excludedExtensions)}

C10_AsyncListingOrder ==
    (pc = "done" /\ op = "getAllInDirectory" /\ outcome.st = "returned") =>
        outcome.val = GetAllInDirectorySync(fs, arg.directory, arg.extensions,
                                            arg.excludedExtensions, arg.recursive).val

\* C11: getAllInDirectory(Sync) accepts every non-directory child whatever its extension
\* both when extensions is omitted and when it is an empty list, and excludes no child
\* when excludedExtensions is omitted.
C11_OmittedOrEmptyAcceptsAll ==
    (/\ pc = "done"
     /\ op \in {"getAllInDirectory", "getAllInDirectorySync"}
     /\ outcome.st = "returned"
     /\ (~arg.extensions.given \/ arg.extensions.list = <<>>)
     /\ ~arg.excludedExtensions.given) =>
        RangeOf(outcome.val) = MatchingEntries(fs, arg.directory, Omitted, Omitted, arg.recursive)

\* the extension without and with its leading "."
Bare(e) == IF StartsWith(e, Dot) THEN Tail(e) ELSE e
Dotted(e) == Dot \o Bare(e)

\* C12: the directory extension filter compares suffixes after normalization, whatever
\* the leading ".": listing with [e] and with ["." + e] gives the same entries, each
\* ending with "." + e, and an extension no entry ends with gives the empty list; for
\* getFilesInDirectory(Sync) of the oldest revision and getAllInDirectory(Sync).
C12_SuffixAfterNormalization ==
    (/\ pc = "done"
     /\ outcome.st = "returned"
     /\ op \in {"getFilesInDirectory", "getFilesInDirectorySync", "getAllInDirectory", "getAllInDirectorySync"}
     /\ arg.extensions.given
     /\ Len(arg.extensions.list) = 1) =>
        LET e == arg.extensions.list[1]
            bare == Given(<<Bare(e)>>)
            dotted == Given(<<Dotted(e)>>)
        IN  /\ \A i \in 1..Len(outcome.val) : EndsWith(outcome.val[i], Dotted(e))
            /\ IF op \in {"getFilesInDirectory", "getFilesInDirectorySync"}
                   THEN /\ outcome = GetFilesInDirectorySync(fs, arg.directory, bare)
                        /\ outcome = GetFilesInDirectorySync(fs, arg.directory, dotted)
                        /\ (\A k \in 1..Len(Readdir(fs, arg.directory).val) :
                                ~EndsWith(Readdir(fs, arg.directory).val[k], Dotted(e)))
                             => outcome.val = <<>>
                   ELSE /\ RangeOf(outcome.val) =
                               RangeOf(GetAllInDirectorySync(fs, arg.directory, bare,
                                                             arg.excludedExtensions, arg.recursive).val)
                        /\ RangeOf(outcome.val) =
                               RangeOf(GetAllInDirectorySync(fs, arg.directory, dotted,
                                                             arg.excludedExtensions, arg.recursive).val)
                        /\ (\A path \in DOMAIN fs :
                                Below(path, arg.directory, arg.recursive) => ~EndsWith(path, Dotted(e)))
                             => outcome.val = <<>>

\* the oldest revision listed d/s, which holds an entry named u, for the extension "u":
\* u does not end with ".u" and the list is empty
C12_Witness ==
    /\ pc = "done" /\ op = "getFilesInDirectory"
    /\ arg.directory = Join(pD, nS) /\ arg.extensions = Given(<<eU>>)
    /\ nU \in RangeOf(Readdir(fs, arg.directory).val)
    /\ outcome = Returned(<<>>)

\* C13: loadAllInDirectory(Sync) returns, for the listing getAllInDirectory(Sync) gave
\* it on the same file system, the content of path i at position i, and fails as a whole
\* when the listing fails or when any listed path fails to load.
C13_LoadAllInDirectoryFollowsListing ==
    (pc = "done" /\ op \in {"loadAllInDirectory", "loadAllInDirectorySync"}) =>
        LET listing == GetAllInDirectorySync(fs, arg.directory, arg.extensions,
                                             arg.excludedExtensions, arg.recursive)
            listed == IF op = "loadAllInDirectorySync" THEN listing.st = "returned"
                      ELSE FrameComplete(frames[arg.directory])
            paths == IF op = "loadAllInDirectorySync" THEN listing.val
                     ELSE frames[arg.directory].newPaths
        IN  /\ listed <=> listing.st = "returned"
            /\ ~listed => outcome.st = "thrown"
            /\ listed =>
                /\ Len(paths) = Len(listing.val)
                /\ RangeOf(paths) = RangeOf(listing.val)
                /\ IF \A i \in 1..Len(paths) : Readable(fs, paths[i])
                       THEN outcome = Returned([i \in 1..Len(paths) |-> Node(fs, paths[i]).content])
                       ELSE outcome.st = "thrown"

\* an asynchronous call whose listing came in another order than the blocking form's
\* returned the contents in the order of its own listing
C13_Witness ==
    /\ pc = "done" /\ op = "loadAllInDirectory"
    /\ outcome.st = "returned"
    /\ Len(outcome.val) >= 2
    /\ pending = {}
    /\ frames[arg.directory].newPaths #
           GetAllInDirectorySync(fs, arg.directory, arg.extensions,
                                 arg.excludedExtensions, arg.recursive).val

\* the path, with symbolic links followed, leads to a directory
ResolvesToDirectory(f, path) == Kind(f, path) \in {"dir", "nolist", "linkdir"}

\* C14: isDirectory and isDirectorySync never raise; they return true iff the path
\* resolves to a directory, and false for every path that is missing or cannot be reached.
C14_TrueIffResolvesToDirectory ==
    (pc = "done" /\ op \in {"isDirectory", "isDirectorySync"}) =>
        /\ outcome.st = "returned"
        /\ outcome.val = ResolvesToDirectory(fs, arg.path)
        /\ Kind(fs, arg.path) \in {"missing", "denied"} => outcome.val = FALSE

\* C15: the asynchronous and the blocking match-finder return the same value for every
\* file system (directories and unreadable files among the candidates included), path,
\* extension list and exclusion list.
C15_FinderFormsAgree ==
    (pc = "done" /\ op = "getWithFirstMatchedExtension") =>
        outcome = Returned(GetWithFirstMatchedExtensionSync(fs, arg.path, arg.extensions,
                                                            arg.excludeExtensions))

\* C16: normalizeExtension is idempotent, normalizing its own result changes nothing,
\* and its result always starts with ".".
C16_NormalizeIdempotentDotted ==
    (pc = "done" /\ op = "normalizeExtension") =>
        /\ outcome.st = "returned"
        /\ StartsWith(outcome.val, Dot)
        /\ NormalizeExtension(outcome.val) = outcome.val
        /\ outcome.val = NormalizeExtension(arg.extension)

\* "t" became ".t"
C16_Witness ==
    /\ pc = "done" /\ op = "normalizeExtension"
    /\ arg.extension = eT
    /\ outcome = Returned(eDotT)

\* C17: in the middle revision the asynchronous exists(P) is true for an existing P and
\* false for a missing one, as existsSync(P) is.
C17_MiddleExistsAgreesWithExistsSync ==
    (pc = "done" /\ op = "part_001.exists") =>
        /\ outcome.st = "returned"
        /\ Kind(fs, arg.path) = "file" => outcome.val = TRUE
        /\ Kind(fs, arg.path) = "missing" => outcome.val = FALSE
        /\ outcome.val = P1_ExistsSync(fs, arg.path)

\* the pair the claim names: the path itself when it has a listed extension, else
\* the first concatenated candidate that loads, else [null, null]
ClaimLoadedPair(f, path, extensions) ==
    LET hits == {i \in 1..Len(extensions) : Readable(f, path \o NormalizeExtension(extensions[i]))}
        first == CHOOSE i \in hits : \A j \in hits : i <= j
    IN  IF PathHasExtension(path, extensions) /\ Readable(f, path)
            THEN PairOf(Node(f, path).content, path)
        ELSE IF hits = {} THEN NullPair
        ELSE PairOf(Node(f, path \o NormalizeExtension(extensions[first])).content,
                    path \o NormalizeExtension(extensions[first]))

\* C18: in the oldest revision loadWithFirstMatchedExtension(Sync) always produces a
\* pair and never fails: the content and path of the first candidate that loads (the
\* path itself when it already has a listed extension), [null, null] when none loads.
C18_OldestLoadWithAlwaysAPair ==
    (/\ pc = "done"
     /\ op \in {"part_000.loadWithFirstMatchedExtension", "part_000.loadWithFirstMatchedExtensionSync"}) =>
        /\ outcome.st = "returned"
        /\ (PathHasExtension(arg.path, arg.extensions) /\ Readable(fs, arg.path))
              => outcome.val = PairOf(Node(fs, arg.path).content, arg.path)
        /\ ~PathHasExtension(arg.path, arg.extensions)
              => outcome.val = ClaimLoadedPair(fs, arg.path, arg.extensions)

\* the tuple the claim names: [true, path + extension] for the first extension whose
\* candidate is on the disk, [false, null] when there is none
ClaimExistsPair(f, path, extensions) ==
    LET hits == {i \in 1..Len(extensions) : FsExistsSync(f, path \o NormalizeExtension(extensions[i]))}
        first == CHOOSE i \in hits : \A j \in hits : i <= j
    IN  IF hits = {} THEN NoMatchPair
        ELSE ExistsPair(TRUE, path \o NormalizeExtension(extensions[first]))

\* C19: in the middle revision existsWithFirstMatchedExtension resolves to
\* [true, P + normalize(e)] for the first e whose candidate exists and to [false, null]
\* otherwise, the pair existsWithFirstMatchedExtensionSync returns, also when only a
\* later extension of the list exists.
C19_MiddleExistsWithFirstMatch ==
    (/\ pc = "done"
     /\ op \in {"part_001.existsWithFirstMatchedExtension", "part_001.existsWithFirstMatchedExtensionSync"}) =>
        /\ outcome = Returned(ClaimExistsPair(fs, arg.path, arg.extensions))
        /\ outcome = Returned(P1_ExistsWithFirstMatchedExtensionSync(fs, arg.path, arg.extensions))

\* the attempt behind an outstanding request ends the search: the load succeeds, or
\* the probed candidate exists and is not excluded
AttemptSucceeds(req) ==
    IF op = "loadAny" THEN ReadFile(fs, req.path).ok
    ELSE /\ Exists(fs, req.path)
         /\ (req.slot = 1 \/ ~MatchedFileIsExcluded(req.path, arg.excludeExtensions))

\* one step of a sequential operation
SequentialStep ==
    (op' \in {"loadAny", "getWithFirstMatchedExtension"}) =>
        /\ Cardinality(pending') <= 1
        /\ pc' = "done" => pending' = {}
        /\ (op = op' /\ pc = "await") =>
              \A req \in pending :
                  IF AttemptSucceeds(req)
                      THEN pc' = "done" /\ pending' = {} /\ ~outcome'.val.null
                      ELSE /\ cursor' \in {cursor, cursor + 1}
                           /\ \A next \in pending' :
                                  IF op = "loadAny"
                                      THEN cursor' = cursor + 1 /\ next = ReadReq(arg.paths[cursor'], cursor')
                                      ELSE cursor' = cursor <=> (req.slot = 1 /\ next.slot = 2)

\* C20: loadAny and getWithFirstMatchedExtension are strictly sequential and
\* short-circuiting: at most one attempt is outstanding, the I/O of the next candidate
\* is issued only when the attempt before it has completed with a failure or a
\* non-match, and no I/O is issued after the first attempt that succeeds.
C20_SequentialShortCircuit == [][SequentialStep]_vars

\* loadAny attempts its second path, alone, after the first has failed
C20_Witness ==
    /\ op = "loadAny" /\ pc = "await"
    /\ cursor = 2
    /\ pending = {ReadReq(arg.paths[2], 2)}
    /\ ~ReadFile(fs, arg.paths[1]).ok

\* C21: in the middle revision a successful loadAny / loadAnySync pairs the loaded bytes
\* with the path they were loaded from: the second component is the input path whose
\* load succeeded, also when that path is the last of the input.
C21_MiddleLoadAnyPairsMatchedPath ==
    (/\ pc = "done"
     /\ op \in {"part_001.loadAny", "part_001.loadAnySync"}
     /\ outcome.st = "returned"
     /\ ~outcome.val.null) =>
        LET good == {i \in 1..Len(arg.paths) : Readable(fs, arg.paths[i])}
            first == CHOOSE i \in good : \A j \in good : i <= j
        IN  /\ good # {}
            /\ outcome.val.buf = fs[arg.paths[first]].content
            /\ outcome.val.path = arg.paths[first]

\* one step of the oldest loadAny / loadAnySync: the attempt outstanding is the one of
\* the cursor, it follows the failure of the attempt before it, and a finished call has
\* resolved with the buffer the loop of the current revision returns
OldestLoadAnyStep ==
    (op' \in {"part_000.loadAny", "part_000.loadAnySync"}) =>
        /\ cursor' <= Len(arg'.paths) + 1
        /\ pc' = "await" =>
              /\ pending' = {ReadReq(arg'.paths[cursor'], cursor')}
              /\ op = op' => (cursor' = cursor + 1 /\ ~ReadFile(fs, arg.paths[cursor]).ok)
        /\ pc' = "done" =>
              /\ pending' = {}
              /\ outcome'.st = "returned"
              /\ LET loop == LoadAnySync(fs, arg'.paths).val
                 IN  IF loop.null THEN outcome'.val = NullPair
                     ELSE ~outcome'.val.null /\ outcome'.val.buf = loop.buf
              /\ (op = op' /\ pc = "await" /\ ~outcome'.val.null) =>
                    (cursor' = cursor /\ ReadFile(fs, arg.paths[cursor]).ok)

Blank ==
    /\ op = "idle" /\ arg = NoArg /\ pending = {} /\ cursor = 0
    /\ results = <<>> /\ frames = NoFrames /\ match = Null /\ outcome = NoOutcome

\* one step of any operation: the file system is not written, a call starts from a
\* blank instance and leaves a blank instance when it is over
FrameStep ==
    /\ fs' = fs
    /\ (pc = "idle" /\ pc' # "idle") => Blank
    /\ (pc # "idle" /\ pc' = "idle") => Blank'

\* C23: every operation of the current revision leaves the file system unchanged and
\* keeps no state between calls: after any sequence of calls, successful or failing,
\* the file system is the initial one, and a call starts from the same blank instance
\* whatever was called before, so that its result depends on its arguments and the
\* file system alone.
C23_NoWriteNoStateBetweenCalls == [][FrameStep]_vars

\* a batch that has failed while one of its reads is still outstanding: the state a
\* later call must not see anything of
C23_Witness ==
    /\ pc = "done" /\ op = "loadAll"
    /\ outcome.st = "thrown"
    /\ pending # {}

\* how often x occurs in seq
Count(seq, x) == Cardinality({i \in 1..Len(seq) : seq[i] = x})

\* C24: whatever the order in which the concurrent callbacks push into newPaths, the
\* asynchronous getAllInDirectory returns the multiset of paths getAllInDirectorySync
\* returns on the same tree, nothing lost and nothing twice, and its promise resolves
\* only when every child and every recursive call has contributed.
C24_AsyncListingSameMultiset ==
    (pc = "done" /\ op = "getAllInDirectory" /\ outcome.st = "returned") =>
        LET sync == GetAllInDirectorySync(fs, arg.directory, arg.extensions,
                                          arg.excludedExtensions, arg.recursive)
        IN  /\ sync.st = "returned"
            /\ Len(outcome.val) = Len(sync.val)
            /\ \A path \in RangeOf(outcome.val) \cup RangeOf(sync.val) :
                   Count(outcome.val, path) = Count(sync.val, path)
            /\ \A path \in RangeOf(outcome.val) : Count(outcome.val, path) = 1
            /\ pending = {}
            /\ DOMAIN frames = {arg.directory}
            /\ FrameComplete(frames[arg.directory])

\* a recursive walk whose callbacks completed out of listing order returned the three
\* or more paths of the blocking walk in another order
C24_Witness ==
    /\ pc = "done" /\ op = "getAllInDirectory"
    /\ arg.recursive
    /\ outcome.st = "returned"
    /\ Len(outcome.val) >= 3
    /\ outcome.val # GetAllInDirectorySync(fs, arg.directory, arg.extensions,
                                           arg.excludedExtensions, arg.recursive).val
    /\ Join(Join(Join(pD, nS), nU), nET) \in RangeOf(outcome.val)

\* the directories a walk lists: the given one and, when recursive, every entry below
\* it that lstat reports as a directory
RECURSIVE Walked(_, _, _)
Walked(f, directory, recursive) ==
    {directory} \cup
        (IF recursive /\ Readdir(f, directory).ok
            THEN UNION {Walked(f, Join(directory, Readdir(f, directory).val[k]), recursive) :
                           k \in {i \in 1..Len(Readdir(f, directory).val) :
                                     Lstat(f, Join(directory, Readdir(f, directory).val[i])).ok
                                     /\ Lstat(f, Join(directory, Readdir(f, directory).val[i])).val}}
            ELSE {})

Unlistable(f, directory, recursive) == {x \in Walked(f, directory, recursive) : ~Readdir(f, x).ok}

\* C25: getAllInDirectory and getAllInDirectorySync reject or throw exactly when listing
\* the given directory or, with recursive = true, a directory below it fails; the
\* caller then gets that listing's error and no shorter list.
C25_ListingFailurePropagates ==
    (pc = "done" /\ op \in {"getAllInDirectory", "getAllInDirectorySync"}) =>
        LET failed == Unlistable(fs, arg.directory, arg.recursive)
        IN  /\ (outcome.st = "thrown") <=> (failed # {})
            /\ (outcome.st = "returned") <=> (failed = {})
            /\ outcome.st = "thrown" =>
                   /\ outcome.val = <<>>
                   /\ \E x \in failed : outcome.code = Readdir(fs, x).code

\* the recursive walk of d rejected with the error of listing d/s although paths of d
\* had already been pushed into newPaths
C25_Witness ==
    /\ pc = "done" /\ op = "getAllInDirectory"
    /\ arg.directory = pD /\ arg.recursive
    /\ Kind(fs, Join(pD, nS)) = "nolist"
    /\ outcome = Thrown("EACCES")
    /\ frames[pD].newPaths # <<>>

\* C26: on an unchanging file system loadWithFirstMatchedExtension and
\* loadWithFirstMatchedExtensionSync never raise: whenever the match-finder of the form
\* called returns a path, loading that path succeeds, whether the candidate entries are
\* regular files, directories or unreadable files.
C26_LoadAfterMatchNeverRaises ==
    (pc = "done" /\ op \in {"loadWithFirstMatchedExtension", "loadWithFirstMatchedExtensionSync"}) =>
        LET found == IF op = "loadWithFirstMatchedExtension" THEN match
                     ELSE GetWithFirstMatchedExtensionSync(fs, arg.path, arg.extensions, arg.excludeExtensions)
        IN  /\ outcome.st = "returned"
            /\ ~found.null => ReadFile(fs, found.path).ok

====
